---- MODULE Spec2Model ----
(***************************************************************************)
(* Weather ETL pipeline (etl_weather.py.py) and its Streamlit dashboard    *)
(* (app.py).                                                               *)
(*                                                                         *)
(* The pipeline is one sequential Python process: the module body loads    *)
(* and validates the environment, then either the __main__ block runs the  *)
(* four stages in order (runAs = "script") or a caller that imported the   *)
(* module invokes the stage functions and schedule_etl in any order        *)
(* (runAs = "module").  Every stage is stepped at the granularity at which *)
(* its effects on the database become visible: one step per database       *)
(* statement group, one per fetched location, one per alert.               *)
(*                                                                         *)
(* The database is the SQLite file weather.db, which DB_URL names in the   *)
(* documented configuration (insert_backdated_snapshots and the dashboard  *)
(* open that file by name).                                                *)
(***************************************************************************)
EXTENDS Integers, Sequences, FiniteSets, TLC

\* ------------------------------------------------------------------ bounds
\* Stage calls a caller of the imported module makes in one run.
MaxCalls == 2
\* Largest `hours` argument a caller passes to insert_backdated_snapshots.
MaxHours == 2
\* Calls of fetch_one_record in one run.
MaxFetches == 6
\* Faults of the environment in one run: database statements that fail
\* although their tables exist, and SMTP exchanges that fail.
MaxFaults == 2

\* ------------------------------------------------------- program constants
SecondsPerHour == 3600
MainHours == 25
DefaultSmtpPort == 587
\* Report instant of the weather API at the run's first fetch (01:00 UTC on
\* day 1) and the seconds by which it advances from one fetch to the next.
ApiEpoch == 90000
ApiStep == 600

SecondsPerDay == 24 * SecondsPerHour

VARIABLES
  env,        \* os.environ after load_dotenv(), until the module body has read it
  settings,   \* the module's globals API_KEY .. EMAIL_RECIPIENT once assigned
  runAs,      \* "script" (python app.py) or "module" (imported, functions called)
  top,        \* position of the module body / __main__ block / caller
  startErr,   \* exception raised by the module body, "none" if none
  tables,     \* TRUE when dim_location and fact_weather exist in weather.db
  dim,        \* rows of dim_location, in rowid order
  fact,       \* rows of fact_weather, in rowid order
  stage,      \* stage function on the stack, "none" when none is
  pc,         \* position inside the stage function
  err,        \* exception in flight in the stage, "none" if none
  hours,      \* `hours` argument of the running insert_backdated_snapshots
  locs,       \* df_locs: the rows read from dim_location by the stage
  idx,        \* index into locs of the next location of the loop
  rows,       \* all_rows (backfill) / rows (etl_once): records, obs_ts in UNIX seconds
  alerts,     \* every call of send_failure_alert so far: subject, delivered
  sched,      \* schedule_etl: "off", "running", "interrupted", "failed"
  nFetches,   \* calls of fetch_one_record so far
  fetched,    \* outcome of each fetch of the running stage: ok, and the record
  fact0,      \* fact_weather as it was when the running stage was called
  inserted,   \* rows appended to fact_weather by the running stage
  insertCalls,\* calls of to_sql made by the running stage
  calls,      \* stage calls completed so far: op, hours, outcome, table sizes
  dbFaults,   \* database statements that have failed so far for an outside reason
  dash        \* the dashboard session (Streamlit script run)

dbVars == <<tables, dim, fact>>
frameVars == <<stage, pc, err, hours, locs, idx, rows, fetched, fact0, inserted,
               insertCalls>>
vars == <<env, settings, runAs, top, startErr, tables, dim, fact, stage, pc, err, hours,
          locs, idx, rows, alerts, sched, nFetches, fetched, fact0, inserted,
          insertCalls, calls, dbFaults, dash>>

\* ------------------------------------------------------------- environment
Unset == "<unset>"
RequiredNames == {"OWM_API_KEY", "DB_URL", "SMTP_SERVER", "EMAIL_SENDER",
                  "EMAIL_PASSWORD", "EMAIL_RECIPIENT"}
SettingNames == RequiredNames \cup {"SMTP_PORT"}
TextValues == {Unset, "", "value"}
PortValues == {Unset, "", "587", "smtp"}
Environments ==
  {e \in [SettingNames -> TextValues \cup PortValues] :
     /\ \A n \in RequiredNames : e[n] \in TextValues
     /\ e["SMTP_PORT"] \in PortValues}

\* Python truthiness of os.getenv(name): None and "" are both falsy.
Truthy(v) == v \notin {Unset, ""}

\* int(os.getenv("SMTP_PORT", 587)): the default replaces only an unset
\* variable; int("") and int("smtp") raise ValueError.
PortParses(v) == v \in {Unset, "587"}
SmtpPort(v) == IF v = Unset THEN DefaultSmtpPort ELSE 587

\* Lines 57-64: the globals the module body assigns from environment e.
Globals(e) ==
  [n \in SettingNames |-> IF n = "SMTP_PORT" THEN SmtpPort(e[n]) ELSE e[n]]

\* No global is assigned yet / the environment has been read.
NoGlobals == [n \in SettingNames |-> Unset]
EnvRead == [n \in SettingNames |-> "<read>"]

\* A validation that forgets the recipient.
ValidatedNamesNoRecipient == {"OWM_API_KEY", "DB_URL", "SMTP_SERVER", "EMAIL_SENDER",
                              "EMAIL_PASSWORD"}

\* The names the validation at module level looks at.
ValidatedNames == {"OWM_API_KEY", "DB_URL", "SMTP_SERVER", "EMAIL_SENDER",
                   "EMAIL_PASSWORD", "EMAIL_RECIPIENT"}

\* The exception the module body raises for environment e, "none" if it loads.
LoadError(e) ==
  IF ~PortParses(e["SMTP_PORT"]) THEN "ValueError"
  ELSE IF \E n \in ValidatedNames : ~Truthy(e[n]) THEN "RuntimeError"
  ELSE "none"

\* ---------------------------------------------------------------- database
Cities == << [lat |-> "12.9716", lon |-> "77.5946", city_name |-> "Bengaluru", country |-> "IN"],
             [lat |-> "51.5072", lon |-> "-0.1276", city_name |-> "London",    country |-> "GB"],
             [lat |-> "40.7128", lon |-> "-74.0060", city_name |-> "New York", country |-> "US"] >>

\* Columns of dim_location under a PRIMARY KEY or UNIQUE constraint.
DimUniqueColumns == {"location_id"}

\* INTEGER PRIMARY KEY of a row inserted without one: largest rowid plus one.
NextRowId(table) == Len(table) + 1

\* INSERT OR IGNORE INTO dim_location (lat, lon, city_name, country): the row
\* gets a fresh location_id, and is dropped when it collides with an existing
\* row on every column of a uniqueness constraint.
InsertOrIgnore(table, c) ==
  LET new == [location_id |-> NextRowId(table), city_name |-> c.city_name,
              country |-> c.country, lat |-> c.lat, lon |-> c.lon]
  IN IF \E i \in 1..Len(table) : \A k \in DimUniqueColumns : table[i][k] = new[k]
     THEN table
     ELSE Append(table, new)

RECURSIVE SeedRows(_, _, _)
SeedRows(table, cities, i) ==
  IF i > Len(cities) THEN table
  ELSE SeedRows(InsertOrIgnore(table, cities[i]), cities, i + 1)

\* pd.to_datetime(obs_ts, unit="s", utc=True): UNIX seconds to a UTC datetime.
ToDatetime(ts) == [day |-> ts \div SecondsPerDay, sec |-> ts % SecondsPerDay]

\* df.to_sql("fact_weather", ..., if_exists="append"): every row of the frame
\* is appended in order, with a fresh id and obs_ts as a UTC datetime.
AppendFact(table, frame) ==
  table \o [i \in 1..Len(frame) |->
              [id |-> NextRowId(table) + (i - 1),
               location_id |-> frame[i].location_id,
               obs_ts |-> ToDatetime(frame[i].obs_ts),
               reading |-> frame[i].reading]]

\* SELECT location_id, lat, lon FROM dim_location
SelectLocations(table) ==
  [i \in 1..Len(table) |-> [location_id |-> table[i].location_id,
                            lat |-> table[i].lat, lon |-> table[i].lon]]

\* ------------------------------------------------------------ weather API
\* A record keyed by the number of the fetch instead of the location's id.
FetchOneRecordKeyedByFetch(loc, n) ==
  [location_id |-> n,
   obs_ts |-> ApiEpoch + n * ApiStep,
   reading |-> 100 * loc.location_id + n]

\* fetch_one_record(location_row) when the request succeeds, as the n-th
\* fetch of the run: the flattened record.  `reading` stands for the eight
\* measured fields (temp_c .. weather_desc), which the pipeline only copies;
\* the API reports a different reading for every fetch.
FetchOneRecord(loc, n) ==
  [location_id |-> loc.location_id,
   obs_ts |-> ApiEpoch + n * ApiStep,
   reading |-> 100 * loc.location_id + n]

\* ------------------------------------------------------------------ alerts
\* A helper without its own try/except: a failed exchange replaces the error.
ErrorAfterAlertUncaught(stageErr, delivered) ==
  IF delivered THEN stageErr ELSE "SMTPException"

\* send_failure_alert: the SMTP exchange either delivers or raises; the
\* exception of a failed exchange is caught and printed inside the helper.
\* The exception that leaves the stage's handler afterwards (`raise`).
ErrorAfterAlert(stageErr, delivered) == stageErr

\* A loop without the inner try/except: the exception reaches the stage handler.
AfterFetchErrorUncaught(next) == "except"

\* Lines 310-311 of etl_once: a fetch exception is caught inside the loop and
\* printed; the loop goes on with the position it would have had anyway.
AfterFetchError(next) == next

\* A loop that writes each location's snapshots as soon as it has them.
FactAfterIterationFlushed(table, frame) == AppendFact(table, frame)

\* Lines 253-255 of insert_backdated_snapshots: the snapshots of one location
\* are appended to all_rows; fact_weather is not written inside the loop.
FactAfterIteration(table, frame) == table

\* Snapshots that start one hour back instead of at the fetched instant.
SnapshotsOffByOne(base, n) ==
  [k \in 1..n |-> [base EXCEPT !.obs_ts = base.obs_ts - (k * SecondsPerHour)]]

\* The snapshots derived from one fetched record: h = 0 .. hours-1 hours back.
Snapshots(base, n) ==
  [k \in 1..n |-> [base EXCEPT !.obs_ts = base.obs_ts - ((k - 1) * SecondsPerHour)]]

\* A recreate that leaves the old rows in place.
DroppedTableKept(table) == table

\* fact_weather and dim_location after the two DROP TABLE IF EXISTS statements.
DroppedTable(table) == << >>

\* ----------------------------------------------------------- initial states
PreviousRunDim == SeedRows(<< >>, Cities, 1)
PreviousRunFact ==
  AppendFact(<< >>,
             [i \in 1..Len(PreviousRunDim) |->
                FetchOneRecord(SelectLocations(PreviousRunDim)[i], i - 4 - Len(PreviousRunDim))])

\* weather.db when the process starts: no file yet, an empty schema, or the
\* tables left by an earlier run (three cities, one ETL cycle).
InitialDatabases ==
  { [tables |-> FALSE, dim |-> << >>, fact |-> << >>],
    [tables |-> TRUE,  dim |-> << >>, fact |-> << >>],
    [tables |-> TRUE,  dim |-> PreviousRunDim, fact |-> PreviousRunFact] }

NoDash == [loaded |-> FALSE]

Init ==
  /\ env \in Environments
  /\ settings = NoGlobals
  /\ runAs \in {"script", "module"}
  /\ top = "load"
  /\ startErr = "none"
  /\ \E db \in InitialDatabases :
       /\ tables = db.tables
       /\ dim = db.dim
       /\ fact = db.fact
  /\ stage = "none"
  /\ pc = "none"
  /\ err = "none"
  /\ hours = 0
  /\ locs = << >>
  /\ idx = 0
  /\ rows = << >>
  /\ alerts = << >>
  /\ sched = "off"
  /\ nFetches = 0
  /\ fetched = << >>
  /\ fact0 = << >>
  /\ inserted = 0
  /\ insertCalls = 0
  /\ calls = << >>
  /\ dbFaults = 0
  /\ dash = NoDash

\* ------------------------------------------------------------- module body
\* Lines 55-74: read the environment, convert the port, validate.
LoadEnvironment ==
  /\ top = "load"
  /\ startErr' = LoadError(env)
  /\ IF LoadError(env) # "none"
     THEN /\ top' = "refused"
          /\ UNCHANGED <<env, settings>>
     ELSE /\ top' = IF runAs = "script" THEN "step1" ELSE "idle"
          /\ settings' = Globals(env)
          /\ env' = EnvRead
  /\ UNCHANGED <<runAs, dbVars, frameVars, alerts, sched, nFetches, calls,
                 dbFaults, dash>>

\* ------------------------------------------------------------ stage frames
StageNames == {"recreate_tables", "seed_locations", "insert_backdated_snapshots",
               "etl_once"}

\* A stage function is entered: its locals are fresh.
Enter(stg, h) ==
  /\ stage' = stg
  /\ pc' = "start"
  /\ err' = "none"
  /\ hours' = h
  /\ locs' = << >>
  /\ idx' = 0
  /\ rows' = << >>
  /\ fetched' = << >>
  /\ fact0' = fact
  /\ inserted' = 0
  /\ insertCalls' = 0

\* The frame of a finished stage is popped: its locals are gone.
Leave ==
  /\ stage' = "none"
  /\ pc' = "none"
  /\ hours' = 0
  /\ locs' = << >>
  /\ idx' = 0
  /\ rows' = << >>
  /\ fetched' = << >>
  /\ fact0' = << >>
  /\ inserted' = 0
  /\ insertCalls' = 0

CallRecord(op, outcome) ==
  [op |-> op, hours |-> hours, outcome |-> outcome,
   dimRows |-> Len(dim), factRows |-> Len(fact)]

\* What a stage remembers of one fetch.
FetchOutcome(ok, loc, n) ==
  [ok |-> ok, location_id |-> loc.location_id,
   obs_ts |-> IF ok THEN FetchOneRecord(loc, n).obs_ts ELSE 0,
   reading |-> IF ok THEN FetchOneRecord(loc, n).reading ELSE 0]

\* ---------------------------------------------------------------- statements
MailFaults == Cardinality({i \in 1..Len(alerts) : ~alerts[i].delivered})

\* The outcomes of a database statement: it fails when a table it names is
\* missing, and may fail for a reason of the environment (file locked, disk).
DbOutcomes(needsTables) ==
  IF needsTables /\ ~tables THEN {FALSE}
  ELSE IF dbFaults + MailFaults < MaxFaults THEN BOOLEAN ELSE {TRUE}

FaultsAfter(ok, needsTables) ==
  IF ~ok /\ (tables \/ ~needsTables) THEN dbFaults + 1 ELSE dbFaults

\* The outcomes of the SMTP exchange of send_failure_alert (lines 89-97).
MailOutcomes == IF dbFaults + MailFaults < MaxFaults THEN BOOLEAN ELSE {TRUE}

\* The statement raised: control passes to the stage's `except Exception`.
Raise(kind) ==
  /\ pc' = "except"
  /\ err' = kind

\* ------------------------------------------------------------ recreate_tables
\* Lines 146-148: one transaction drops both tables.
RecreateDrop ==
  /\ stage = "recreate_tables" /\ pc = "start"
  /\ \E ok \in DbOutcomes(FALSE) :
       /\ dbFaults' = FaultsAfter(ok, FALSE)
       /\ IF ok
          THEN /\ tables' = FALSE
               /\ dim' = DroppedTable(dim)
               /\ fact' = DroppedTable(fact)
               /\ pc' = "create"
               /\ err' = err
          ELSE /\ Raise("OperationalError")
               /\ UNCHANGED dbVars
  /\ UNCHANGED <<env, settings, runAs, top, startErr, stage, hours, locs, idx, rows, fetched,
                 fact0, inserted, insertCalls, alerts, sched, nFetches, calls, dash>>

\* Line 149: meta.create_all(engine).
RecreateCreate ==
  /\ stage = "recreate_tables" /\ pc = "create"
  /\ \E ok \in DbOutcomes(FALSE) :
       /\ dbFaults' = FaultsAfter(ok, FALSE)
       /\ IF ok
          THEN /\ tables' = TRUE
               /\ pc' = "returned"
               /\ err' = err
          ELSE /\ Raise("OperationalError")
               /\ tables' = tables
  /\ UNCHANGED <<env, settings, runAs, top, startErr, dim, fact, stage, hours, locs, idx, rows,
                 fetched, fact0, inserted, insertCalls, alerts, sched, nFetches,
                 calls, dash>>

\* ------------------------------------------------------------- seed_locations
\* Lines 172-180: one transaction inserts the three cities.
SeedInsert ==
  /\ stage = "seed_locations" /\ pc = "start"
  /\ \E ok \in DbOutcomes(TRUE) :
       /\ dbFaults' = FaultsAfter(ok, TRUE)
       /\ IF ok
          THEN /\ dim' = SeedRows(dim, Cities, 1)
               /\ pc' = "verify"
               /\ err' = err
          ELSE /\ Raise("OperationalError")
               /\ dim' = dim
  /\ UNCHANGED <<env, settings, runAs, top, startErr, tables, fact, stage, hours, locs, idx,
                 rows, fetched, fact0, inserted, insertCalls, alerts, sched,
                 nFetches, calls, dash>>

\* Lines 181-183: the table is read back and printed.
SeedVerify ==
  /\ stage = "seed_locations" /\ pc = "verify"
  /\ \E ok \in DbOutcomes(TRUE) :
       /\ dbFaults' = FaultsAfter(ok, TRUE)
       /\ IF ok
          THEN /\ pc' = "returned"
               /\ err' = err
          ELSE Raise("OperationalError")
  /\ UNCHANGED <<env, settings, runAs, top, startErr, dbVars, stage, hours, locs, idx, rows,
                 fetched, fact0, inserted, insertCalls, alerts, sched, nFetches,
                 calls, dash>>

\* ------------------------------------------------- insert_backdated_snapshots
\* Lines 235-243: read the locations; an empty table ends the stage.
BackfillStart ==
  /\ stage = "insert_backdated_snapshots" /\ pc = "start"
  /\ \E ok \in DbOutcomes(TRUE) :
       /\ dbFaults' = FaultsAfter(ok, TRUE)
       /\ IF ok
          THEN /\ locs' = SelectLocations(dim)
               /\ idx' = 1
               /\ pc' = IF dim = << >> THEN "returned" ELSE "loop"
               /\ err' = err
          ELSE /\ Raise("OperationalError")
               /\ UNCHANGED <<locs, idx>>
  /\ UNCHANGED <<env, settings, runAs, top, startErr, dbVars, stage, hours, rows, fetched,
                 fact0, inserted, insertCalls, alerts, sched, nFetches, calls, dash>>

\* Lines 244-256: one iteration of the loop over the locations.  A fetch
\* exception is not caught in the loop: it reaches the stage's handler.
BackfillFetch ==
  /\ stage = "insert_backdated_snapshots" /\ pc = "loop"
  /\ \E ok \in BOOLEAN :
       /\ fetched' = Append(fetched, FetchOutcome(ok, locs[idx], nFetches))
       /\ IF ok
          THEN /\ rows' = rows \o Snapshots(FetchOneRecord(locs[idx], nFetches), hours)
               /\ fact' = FactAfterIteration(fact,
                             Snapshots(FetchOneRecord(locs[idx], nFetches), hours))
               /\ idx' = idx + 1
               /\ pc' = IF idx = Len(locs) THEN "insert" ELSE "loop"
               /\ err' = err
          ELSE /\ Raise("HTTPError")
               /\ UNCHANGED <<rows, idx, fact>>
  /\ nFetches' = nFetches + 1
  /\ UNCHANGED <<env, settings, runAs, top, startErr, tables, dim, stage, hours, locs, fact0,
                 inserted, insertCalls, alerts, sched, calls, dbFaults, dash>>

\* Lines 259-275: build the frame (an empty all_rows has no obs_ts column:
\* KeyError), then append it to fact_weather in one to_sql call.
BackfillInsert ==
  /\ stage = "insert_backdated_snapshots" /\ pc = "insert"
  /\ IF rows = << >>
     THEN /\ Raise("KeyError")
          /\ UNCHANGED <<fact, inserted, insertCalls, dbFaults>>
     ELSE \E ok \in DbOutcomes(TRUE) :
            /\ dbFaults' = FaultsAfter(ok, TRUE)
            /\ insertCalls' = insertCalls + 1
            /\ IF ok
               THEN /\ fact' = AppendFact(fact, rows)
                    /\ inserted' = Len(rows)
                    /\ pc' = "returned"
                    /\ err' = err
               ELSE /\ Raise("OperationalError")
                    /\ UNCHANGED <<fact, inserted>>
  /\ UNCHANGED <<env, settings, runAs, top, startErr, tables, dim, stage, hours, locs, idx, rows,
                 fetched, fact0, alerts, sched, nFetches, calls, dash>>

\* ------------------------------------------------------------------- etl_once
\* Lines 294-299: read the locations; an empty table ends the cycle.
EtlStart ==
  /\ stage = "etl_once" /\ pc = "start"
  /\ \E ok \in DbOutcomes(TRUE) :
       /\ dbFaults' = FaultsAfter(ok, TRUE)
       /\ IF ok
          THEN /\ locs' = SelectLocations(dim)
               /\ idx' = 1
               /\ pc' = IF dim = << >> THEN "returned" ELSE "loop"
               /\ err' = err
          ELSE /\ Raise("OperationalError")
               /\ UNCHANGED <<locs, idx>>
  /\ UNCHANGED <<env, settings, runAs, top, startErr, dbVars, stage, hours, rows, fetched,
                 fact0, inserted, insertCalls, alerts, sched, nFetches, calls, dash>>

\* Lines 300-311: one iteration of the loop over the locations.
EtlFetch ==
  /\ stage = "etl_once" /\ pc = "loop"
  /\ \E ok \in BOOLEAN :
       LET next == IF idx = Len(locs) THEN "insert" ELSE "loop"
       IN /\ fetched' = Append(fetched, FetchOutcome(ok, locs[idx], nFetches))
          /\ rows' = IF ok THEN Append(rows, FetchOneRecord(locs[idx], nFetches))
                     ELSE rows
          /\ pc' = IF ok THEN next ELSE AfterFetchError(next)
          /\ err' = IF ~ok /\ AfterFetchError(next) = "except" THEN "HTTPError" ELSE err
          /\ idx' = IF ok \/ AfterFetchError(next) = next THEN idx + 1 ELSE idx
  /\ nFetches' = nFetches + 1
  /\ UNCHANGED <<env, settings, runAs, top, startErr, dbVars, stage, hours, locs, fact0,
                 inserted, insertCalls, alerts, sched, calls, dbFaults, dash>>

\* Lines 313-329: nothing fetched ends the cycle without an insert; otherwise
\* the frame is appended to fact_weather in one transaction.
EtlInsert ==
  /\ stage = "etl_once" /\ pc = "insert"
  /\ IF rows = << >>
     THEN /\ pc' = "returned"
          /\ err' = err
          /\ UNCHANGED <<fact, inserted, insertCalls, dbFaults>>
     ELSE \E ok \in DbOutcomes(TRUE) :
            /\ dbFaults' = FaultsAfter(ok, TRUE)
            /\ insertCalls' = insertCalls + 1
            /\ IF ok
               THEN /\ fact' = AppendFact(fact, rows)
                    /\ inserted' = Len(rows)
                    /\ pc' = "returned"
                    /\ err' = err
               ELSE /\ Raise("OperationalError")
                    /\ UNCHANGED <<fact, inserted>>
  /\ UNCHANGED <<env, settings, runAs, top, startErr, tables, dim, stage, hours, locs, idx, rows,
                 fetched, fact0, alerts, sched, nFetches, calls, dash>>

\* ---------------------------------------------------------- stage handlers
\* The `except Exception` of each stage: send_failure_alert, then `raise`.
StageAlert ==
  /\ stage \in StageNames /\ pc = "except"
  /\ \E delivered \in MailOutcomes :
       /\ alerts' = Append(alerts, [subject |-> stage, cause |-> err,
                                    delivered |-> delivered])
       /\ err' = ErrorAfterAlert(err, delivered)
  /\ pc' = "raised"
  /\ UNCHANGED <<env, settings, runAs, top, startErr, dbVars, stage, hours, locs, idx, rows,
                 fetched, fact0, inserted, insertCalls, sched, nFetches, calls,
                 dbFaults, dash>>

\* ----------------------------------------------------------------- __main__
MainStage(step) ==
  CASE step = "step1" -> "recreate_tables"
    [] step = "step2" -> "seed_locations"
    [] step = "step3" -> "insert_backdated_snapshots"
    [] step = "step4" -> "etl_once"

\* A block that goes from the schema straight to the backfill.
MainNextStepSkipsSeed(step) ==
  CASE step = "step1" -> "step3"
    [] step = "step2" -> "step3"
    [] step = "step3" -> "step4"
    [] step = "step4" -> "finished"

MainNextStep(step) ==
  CASE step = "step1" -> "step2"
    [] step = "step2" -> "step3"
    [] step = "step3" -> "step4"
    [] step = "step4" -> "finished"

MainSteps == {"step1", "step2", "step3", "step4"}

\* Lines 362-371: the next stage is called.
MainCall ==
  /\ runAs = "script" /\ top \in MainSteps /\ stage = "none"
  /\ Enter(MainStage(top), IF top = "step3" THEN MainHours ELSE 0)
  /\ UNCHANGED <<env, settings, runAs, top, startErr, dbVars, alerts, sched, nFetches, calls,
                 dbFaults, dash>>

\* The stage returned: the block goes on to the next line.
MainReturn ==
  /\ runAs = "script" /\ top \in MainSteps /\ pc = "returned"
  /\ calls' = Append(calls, CallRecord(stage, "returned"))
  /\ top' = MainNextStep(top)
  /\ err' = err
  /\ Leave
  /\ UNCHANGED <<env, settings, runAs, startErr, dbVars, alerts, sched, nFetches, dbFaults, dash>>

\* The stage raised: line 378 catches the exception.
MainCatch ==
  /\ runAs = "script" /\ top \in MainSteps /\ pc = "raised"
  /\ calls' = Append(calls, CallRecord(stage, "raised"))
  /\ top' = "main_except"
  /\ err' = err
  /\ Leave
  /\ UNCHANGED <<env, settings, runAs, startErr, dbVars, alerts, sched, nFetches, dbFaults, dash>>

\* A handler of the main block that re-raises without a second alert.
MainAlertSilent ==
  /\ runAs = "script" /\ top = "main_except"
  /\ top' = "crashed"
  /\ UNCHANGED <<env, settings, startErr, dbVars, frameVars, alerts, sched, nFetches, calls,
                 dbFaults, dash>>
  /\ runAs' = runAs

\* Lines 379-382: the alert of the main block, then `raise` ends the process.
MainAlert ==
  /\ runAs = "script" /\ top = "main_except"
  /\ \E delivered \in MailOutcomes :
       /\ alerts' = Append(alerts, [subject |-> "main", cause |-> err,
                                    delivered |-> delivered])
       /\ err' = ErrorAfterAlert(err, delivered)
  /\ top' = "crashed"
  /\ UNCHANGED <<env, settings, runAs, startErr, dbVars, stage, pc, hours, locs, idx, rows,
                 fetched, fact0, inserted, insertCalls, sched, nFetches, calls,
                 dbFaults, dash>>

\* ------------------------------------------------- callers of the module
\* A caller that imported the module calls one of the stage functions.
CallerCall ==
  /\ runAs = "module" /\ top = "idle" /\ stage = "none" /\ sched # "running"
  /\ Len(calls) < MaxCalls
  /\ \E stg \in StageNames, h \in 0..MaxHours :
       /\ stg # "insert_backdated_snapshots" => h = 0
       /\ stg \in {"insert_backdated_snapshots", "etl_once"}
            => nFetches + Len(dim) <= MaxFetches
       /\ Enter(stg, h)
  /\ UNCHANGED <<env, settings, runAs, top, startErr, dbVars, alerts, sched, nFetches, calls,
                 dbFaults, dash>>

\* The stage function returned or raised to the caller.
CallerReturn ==
  /\ runAs = "module" /\ top = "idle" /\ sched # "running"
  /\ pc \in {"returned", "raised"}
  /\ calls' = Append(calls, CallRecord(stage, pc))
  /\ err' = "none"
  /\ Leave
  /\ UNCHANGED <<env, settings, runAs, top, startErr, dbVars, alerts, sched, nFetches,
                 dbFaults, dash>>

\* --------------------------------------------------------------- schedule_etl
\* Lines 344-346: the job is registered and the loop is entered.
ScheduleEtl ==
  /\ runAs = "module" /\ top = "idle" /\ stage = "none" /\ sched # "running"
  /\ Len(calls) < MaxCalls
  /\ sched' = "running"
  /\ UNCHANGED <<env, settings, runAs, top, startErr, dbVars, frameVars, alerts, nFetches,
                 calls, dbFaults, dash>>

\* Line 350: the interval has elapsed and run_pending() calls etl_once.
SchedulerTick ==
  /\ sched = "running" /\ stage = "none"
  /\ nFetches + Len(dim) <= MaxFetches
  /\ Enter("etl_once", 0)
  /\ UNCHANGED <<env, settings, runAs, top, startErr, dbVars, alerts, sched, nFetches, calls,
                 dbFaults, dash>>

\* etl_once returned to run_pending(): the loop goes on (line 351).
SchedulerJobReturned ==
  /\ sched = "running" /\ stage = "etl_once" /\ pc = "returned"
  /\ err' = err
  /\ Leave
  /\ UNCHANGED <<env, settings, runAs, top, startErr, dbVars, alerts, sched, nFetches, calls,
                 dbFaults, dash>>

\* etl_once raised: run_pending() does not catch a job's exception, and the
\* loop's only handler is for KeyboardInterrupt, so the exception leaves
\* schedule_etl and reaches its caller.
SchedulerJobRaised ==
  /\ sched = "running" /\ stage = "etl_once" /\ pc = "raised"
  /\ sched' = "failed"
  /\ calls' = Append(calls, CallRecord("schedule_etl", "raised"))
  /\ err' = "none"
  /\ Leave
  /\ UNCHANGED <<env, settings, runAs, top, startErr, dbVars, alerts, nFetches, dbFaults, dash>>

\* Lines 352-353: KeyboardInterrupt, at any point of the loop or of a cycle
\* in progress (etl_once catches Exception, which KeyboardInterrupt is not).
SchedulerInterrupt ==
  /\ sched = "running"
  /\ sched' = "interrupted"
  /\ calls' = Append(calls, CallRecord("schedule_etl", "returned"))
  /\ err' = "none"
  /\ Leave
  /\ UNCHANGED <<env, settings, runAs, top, startErr, dbVars, alerts, nFetches, dbFaults, dash>>

\* ---------------------------------------------------------------- dashboard
\* app.py is a separate read-only process.  It is opened on the database a
\* pipeline run (python app.py of the ETL script) has left behind, and one
\* script run of it is one step: load, read the sidebar, filter, render.
\* Lines 69-76 need at least one loaded row (min/max of the index).

\* The index value of a loaded row: the UTC instant of its obs_ts, in seconds.
Instant(dt) == dt.day * SecondsPerDay + dt.sec

\* Lines 24-49, load_data(): fact_weather joined to dim_location on
\* location_id, in fact order, indexed by obs_ts.
RECURSIVE LoadData(_, _, _)
LoadData(facts, dims, i) ==
  IF i > Len(facts) THEN << >>
  ELSE [d \in 1..Len(SelectSeq(dims, LAMBDA x : x.location_id = facts[i].location_id)) |->
          [obs_ts |-> Instant(facts[i].obs_ts),
           city_name |-> SelectSeq(dims, LAMBDA x : x.location_id = facts[i].location_id)[d].city_name,
           reading |-> facts[i].reading]]
       \o LoadData(facts, dims, i + 1)

\* Line 61: the options of the city multiselect.
CityOptions(df) == {df[i].city_name : i \in 1..Len(df)}

\* Lines 69-70: the bounds of the date picker, as day numbers.
DateOf(ts) == ts \div SecondsPerDay
MinDate(df) == DateOf(CHOOSE t \in {df[i].obs_ts : i \in 1..Len(df)} :
                        \A u \in {df[i].obs_ts : i \in 1..Len(df)} : t <= u)
MaxDate(df) == DateOf(CHOOSE t \in {df[i].obs_ts : i \in 1..Len(df)} :
                        \A u \in {df[i].obs_ts : i \in 1..Len(df)} : t >= u)

\* Lines 96-97: pd.to_datetime(date).tz_localize("UTC"): midnight UTC of the date.
DateToTimestamp(d) == d * SecondsPerDay

\* A city filter that takes the empty selection literally.
FilterByCityStrict(df, selected) ==
  SelectSeq(df, LAMBDA r : r.city_name \in selected)

\* Lines 90-93: an empty selection keeps every row.
FilterByCity(df, selected) ==
  IF selected # {} THEN SelectSeq(df, LAMBDA r : r.city_name \in selected)
  ELSE df

\* A range filter that leaves out the end instant.
FilterByDateOpenEnd(df, start_date, end_date) ==
  SelectSeq(df, LAMBDA r : /\ r.obs_ts >= DateToTimestamp(start_date)
                           /\ r.obs_ts < DateToTimestamp(end_date))

\* Lines 100-102.
FilterByDate(df, start_date, end_date) ==
  SelectSeq(df, LAMBDA r : /\ r.obs_ts >= DateToTimestamp(start_date)
                           /\ r.obs_ts <= DateToTimestamp(end_date))

\* Lines 110 - 112: the header under the title.
Header(selected, df_filtered) ==
  [cities |-> IF selected # {} THEN "selected" ELSE "All",
   total_records |-> Len(df_filtered)]

\* Lines 115-133: the three metrics; the averages of an empty frame are 0.
Overview(df_filtered) ==
  [total_records |-> Len(df_filtered),
   avg_temp |-> IF df_filtered # << >> THEN "mean" ELSE "0.0",
   avg_humidity |-> IF df_filtered # << >> THEN "mean" ELSE "0.0"]

\* A section that draws whatever it is given.
SectionBodyUnguarded(df_filtered, drawn) == drawn

\* Lines 141-142, 169-170, 202-203, 225-226, 247-248, 264-265, 287-288: every
\* other section body starts with the same test.
SectionBody(df_filtered, drawn) ==
  IF df_filtered = << >> THEN "info: No data available for the selected filters."
  ELSE drawn

VizTabs == {"Histogram", "Boxplot", "Time Series", "Scatterplot", "Pie Chart"}
SectionNames == {"overview", "stats", "corr", "viz"}

\* What one script run shows for the sidebar state it reads.
Render(df, selected, start_date, end_date, on) ==
  LET df_filtered == FilterByDate(FilterByCity(df, selected), start_date, end_date)
  IN [loaded |-> TRUE,
      selected |-> selected, start_date |-> start_date, end_date |-> end_date,
      on |-> on,
      df_filtered |-> df_filtered,
      header |-> Header(selected, df_filtered),
      overview |-> IF on["overview"] THEN Overview(df_filtered)
                   ELSE [total_records |-> -1, avg_temp |-> "hidden",
                         avg_humidity |-> "hidden"],
      stats |-> IF on["stats"] THEN SectionBody(df_filtered, "table") ELSE "hidden",
      corr |-> IF on["corr"] THEN SectionBody(df_filtered, "chart") ELSE "hidden",
      viz |-> [t \in VizTabs |-> IF on["viz"] THEN SectionBody(df_filtered, "chart")
                                 ELSE "hidden"]]

DashboardRun ==
  /\ runAs = "script" /\ top \in {"finished", "crashed"}
  /\ dash = NoDash
  /\ tables
  /\ LoadData(fact, dim, 1) # << >>
  /\ LET df == LoadData(fact, dim, 1)
     IN \E selected \in SUBSET CityOptions(df),
           start_date \in MinDate(df)..MaxDate(df),
           end_date \in MinDate(df)..MaxDate(df),
           on \in [SectionNames -> BOOLEAN] :
          /\ start_date <= end_date
          /\ dash' = Render(df, selected, start_date, end_date, on)
  /\ UNCHANGED <<env, settings, runAs, top, startErr, dbVars, frameVars, alerts, sched,
                 nFetches, calls, dbFaults>>


Next ==
  \/ LoadEnvironment
  \/ RecreateDrop \/ RecreateCreate
  \/ SeedInsert \/ SeedVerify
  \/ BackfillStart \/ BackfillFetch \/ BackfillInsert
  \/ EtlStart \/ EtlFetch \/ EtlInsert
  \/ StageAlert
  \/ MainCall \/ MainReturn \/ MainCatch \/ MainAlert
  \/ CallerCall \/ CallerReturn
  \/ ScheduleEtl \/ SchedulerTick \/ SchedulerJobReturned \/ SchedulerJobRaised
  \/ SchedulerInterrupt
  \/ DashboardRun

Spec == Init /\ [][Next]_vars

TypeOK ==
  /\ top \in {"load", "refused", "idle", "step1", "step2", "step3", "step4",
              "finished", "main_except", "crashed"}
  /\ stage \in StageNames \cup {"none"}
  /\ pc \in {"none", "start", "create", "verify", "loop", "insert", "except",
             "returned", "raised"}
  /\ sched \in {"off", "running", "interrupted", "failed"}
  /\ nFetches \in 0..(MaxFetches + 1)

\* ===================================================================== claims
OkCount(fs) == Cardinality({i \in 1..Len(fs) : fs[i].ok})
LastAlert == alerts[Len(alerts)]
RowsOf(table, id) == {i \in 1..Len(table) : table[i].location_id = id}

\* C1: an etl_once cycle visits every location whatever the earlier fetches
\* did, a failed fetch never takes the cycle to its error handler, the frame
\* handed to the insert has one row per successful fetch, a cycle that
\* returns has added exactly that many rows to fact_weather, and a cycle in
\* which every fetch failed returns without having called the insert.
C1_EtlInsertsOnePerSuccess ==
  stage = "etl_once" =>
    /\ pc = "insert" => Len(fetched) = Len(locs) /\ Len(rows) = OkCount(fetched)
    /\ pc = "returned" =>
         /\ Len(fetched) = Len(locs)
         /\ inserted = OkCount(fetched)
         /\ Len(fact) = Len(fact0) + OkCount(fetched)
         /\ OkCount(fetched) = 0 => insertCalls = 0 /\ fact = fact0
    /\ pc \in {"except", "raised"} =>
         /\ err # "HTTPError"
         /\ Len(fetched) \in {0, Len(locs)}
         /\ inserted = 0 /\ fact = fact0

\* C1 witness: a cycle returned after a fetch failed and a later one succeeded.
C1_Witness ==
  /\ stage = "etl_once" /\ pc = "returned"
  /\ \E i, j \in 1..Len(fetched) : i < j /\ ~fetched[i].ok /\ fetched[j].ok
  /\ inserted = OkCount(fetched) /\ inserted < Len(locs)

\* C2: two consecutive seed_locations calls that both return leave
\* dim_location with the same number of rows after the second as after the
\* first.
C2_SeedIdempotent ==
  \A i \in 1..(Len(calls) - 1) :
    ( /\ calls[i].op = "seed_locations" /\ calls[i].outcome = "returned"
      /\ calls[i + 1].op = "seed_locations" /\ calls[i + 1].outcome = "returned" )
    => calls[i + 1].dimRows = calls[i].dimRows

\* C3: in insert_backdated_snapshots, all_rows holds, for each location
\* fetched so far, `hours` records in fetch order: the k-th has the fetched
\* report instant minus (k-1)*3600 seconds and the fetched reading, so the
\* timestamps of one location start at the fetched instant and decrease by
\* exactly one hour.
C3_BackfillTimestamps ==
  stage = "insert_backdated_snapshots" =>
    /\ Len(rows) = hours * OkCount(fetched)
    /\ \A j \in 1..OkCount(fetched) : \A k \in 1..hours :
         LET r == rows[(j - 1) * hours + k]
         IN /\ fetched[j].ok
            /\ r.location_id = fetched[j].location_id
            /\ r.obs_ts = fetched[j].obs_ts - (k - 1) * 3600
            /\ r.reading = fetched[j].reading
            /\ k > 1 => rows[(j - 1) * hours + k - 1].obs_ts - r.obs_ts = 3600

\* C3 witness: the loop has finished for three locations with hours >= 2.
C3_Witness ==
  /\ stage = "insert_backdated_snapshots" /\ pc = "insert"
  /\ hours >= 2 /\ OkCount(fetched) = 3 /\ Len(rows) = 3 * hours

\* C4: when the calls made so far are recreate_tables, seed_locations and
\* insert_backdated_snapshots(N), each returned, and no stage is running,
\* dim_location has three rows and fact_weather has N rows for each of them
\* and 3*N rows in all.
C4_BackfillRowCount ==
  ( /\ Len(calls) = 3 /\ stage = "none"
    /\ calls[1].op = "recreate_tables" /\ calls[1].outcome = "returned"
    /\ calls[2].op = "seed_locations" /\ calls[2].outcome = "returned"
    /\ calls[3].op = "insert_backdated_snapshots" /\ calls[3].outcome = "returned" )
  => /\ Len(dim) = 3
     /\ Len(fact) = 3 * calls[3].hours
     /\ \A d \in 1..Len(dim) :
          Cardinality(RowsOf(fact, dim[d].location_id)) = calls[3].hours

\* C4 witness: the main block has returned from the backfill of 25 hours.
C4_Witness ==
  /\ Len(calls) = 3 /\ stage = "none" /\ top = "step4"
  /\ calls[3].op = "insert_backdated_snapshots" /\ calls[3].outcome = "returned"
  /\ calls[3].hours = 25 /\ Len(fact) = 75

\* C7: when a stage has raised to its caller, its handler has attempted an
\* alert for that stage, and the exception that propagates is the stage's
\* own error, whether or not the alert was delivered.
C7_AlertThenOriginalError ==
  (stage \in StageNames /\ pc = "raised") =>
    /\ Len(alerts) >= 1
    /\ LastAlert.subject = stage
    /\ err = LastAlert.cause
    /\ err \in {"OperationalError", "HTTPError", "KeyError"}

\* C7 witness: recreate_tables raised after an alert that was not delivered.
C7_Witness ==
  /\ stage = "recreate_tables" /\ pc = "raised"
  /\ Len(alerts) >= 1 /\ ~LastAlert.delivered
  /\ err = "OperationalError"

\* C8 (as stated): the module body refuses to start whenever one of the
\* seven settings, the mail server port included, is not set.
C8_RefusesIfAnySettingMissing ==
  [][(top = "load" /\ \E n \in SettingNames : env[n] = Unset) => top' = "refused"]_vars

\* C8 (amended): the process gets past the module body only with the API
\* key, the database URL, the mail host, sender, password and recipient all
\* set and non-empty and the port an integer; it is refused only when one of
\* those six is missing or empty or the port is set to something that is not
\* an integer (an unset port is not a reason); and no stage, call or
\* scheduler exists in a process that has not got past the module body.
C8_RefusesUnlessRequiredSet ==
  /\ top \notin {"load", "refused"} =>
       /\ \A n \in RequiredNames : Truthy(settings[n])
       /\ settings["SMTP_PORT"] = 587
  /\ top = "refused" =>
       \/ \E n \in RequiredNames : ~Truthy(env[n])
       \/ env["SMTP_PORT"] \in {"", "smtp"}
  /\ top \in {"load", "refused"} =>
       stage = "none" /\ calls = << >> /\ sched = "off" /\ alerts = << >>

\* C8 witness: only the recipient is missing and the process was refused.
C8_Witness ==
  /\ top = "refused" /\ startErr = "RuntimeError"
  /\ env["EMAIL_RECIPIENT"] = Unset
  /\ \A n \in RequiredNames \ {"EMAIL_RECIPIENT"} : Truthy(env[n])
  /\ env["SMTP_PORT"] = Unset

\* C9: the scheduler loop is left only through KeyboardInterrupt: it is
\* never ended by an etl_once cycle that failed.
C9_SchedulerStopsOnlyOnInterrupt == sched \in {"off", "running", "interrupted"}

\* C10: insert_backdated_snapshots writes fact_weather at most once, and
\* until that write succeeds (while locations are still to be fetched, and
\* after any failure) the table is exactly as it was when the stage was
\* called.
C10_BackfillWritesOnceAfterLoop ==
  stage = "insert_backdated_snapshots" =>
    /\ insertCalls <= 1
    /\ pc \in {"start", "loop", "insert", "except", "raised"} => fact = fact0
    /\ pc = "loop" => insertCalls = 0

\* C10 witness: the second fetch failed after the first had succeeded, and
\* the stage raised with fact_weather untouched.
C10_Witness ==
  /\ stage = "insert_backdated_snapshots" /\ pc = "raised" /\ err = "HTTPError"
  /\ hours >= 1 /\ Len(fetched) >= 2 /\ fetched[1].ok
  /\ fact = fact0 /\ fact # << >>

\* The rows the dashboard has loaded, and the claimed membership tests.
AllRows == LoadData(fact, dim, 1)
InDateRange(r) ==
  /\ r.obs_ts >= dash.start_date * 86400
  /\ r.obs_ts <= dash.end_date * 86400

C11_FactReferencesDim ==
  \A i \in 1..Len(fact) : \E j \in 1..Len(dim) :
     dim[j].location_id = fact[i].location_id

\* C11 witness: seed_locations ran on a table that already had rows, so
\* dim_location has ids beyond the first three, and a later cycle wrote a
\* fact row for such a location.
C11_Witness ==
  /\ Len(dim) > Len(Cities)
  /\ stage = "etl_once" /\ pc = "returned" /\ inserted > 0
  /\ \E i \in 1..Len(fact) : fact[i].location_id > Len(Cities)

\* The stage functions in the order the claim gives for one main run.
MainOrder == <<"recreate_tables", "seed_locations", "insert_backdated_snapshots",
               "etl_once">>

\* C12: in a main run the stages that have been called so far are the first
\* ones of recreate_tables, seed_locations, insert_backdated_snapshots,
\* etl_once, in that order and each once; every one but the last has
\* returned normally; a stage is on the stack only when all stages called
\* before it have returned normally, and it is the next one of the order;
\* once a stage has raised no stage is on the stack and the run is in its
\* handler or over; the run finishes only after all four have returned.
C12_MainStagesInOrder ==
  runAs = "script" =>
    /\ Len(calls) <= Len(MainOrder)
    /\ \A i \in 1..Len(calls) : calls[i].op = MainOrder[i]
    /\ \A i \in 1..(Len(calls) - 1) : calls[i].outcome = "returned"
    /\ stage # "none" =>
         /\ Len(calls) < Len(MainOrder)
         /\ stage = MainOrder[Len(calls) + 1]
         /\ \A i \in 1..Len(calls) : calls[i].outcome = "returned"
    /\ (\E i \in 1..Len(calls) : calls[i].outcome = "raised") =>
         stage = "none" /\ top \in {"main_except", "crashed"}
    /\ top = "finished" =>
         Len(calls) = Len(MainOrder) /\ \A i \in 1..Len(calls) : calls[i].outcome = "returned"

\* C12 witness: a main run in which the first two stages returned and the
\* backfill raised has ended without etl_once having been called.
C12_Witness ==
  /\ runAs = "script" /\ top = "crashed"
  /\ Len(calls) = 3
  /\ calls[2].op = "seed_locations" /\ calls[2].outcome = "returned"
  /\ calls[3].op = "insert_backdated_snapshots" /\ calls[3].outcome = "raised"

\* C13: when a stage raises during the main run, the process ends with that
\* stage's exception after exactly two calls of send_failure_alert: the
\* first from the failing stage's own handler, the second from the handler
\* of the main block, both for the same exception, whether or not either
\* message was delivered; between the two handlers exactly one call has
\* been made.
C13_OneFailureTwoAlerts ==
  (runAs = "script" /\ top \in {"main_except", "crashed"}) =>
    /\ calls # << >> /\ calls[Len(calls)].outcome = "raised"
    /\ alerts # << >>
    /\ alerts[1].subject = calls[Len(calls)].op
    /\ alerts[1].cause = err
    /\ top = "main_except" => Len(alerts) = 1
    /\ top = "crashed" =>
         /\ Len(alerts) = 2
         /\ alerts[2].subject = "main"
         /\ alerts[2].cause = alerts[1].cause

\* C13 witness: the main run has ended on a failure of the backfill, and
\* the first of its two alerts could not be delivered.
C13_Witness ==
  /\ runAs = "script" /\ top = "crashed"
  /\ Len(alerts) = 2
  /\ alerts[1].subject = "insert_backdated_snapshots" /\ ~alerts[1].delivered
  /\ alerts[2].subject = "main"

====
